---------------------------- MODULE Spec2Model ----------------------------
(***************************************************************************)
(* Retirement scenario simulator: the projection engine calculateScenario, *)
(* the scenario-set effect that calls it five times, and the input         *)
(* controls that feed it (src/src/components/RetirementSimulator.tsx).     *)
(*                                                                         *)
(* Numbers.  The program computes on IEEE doubles.  Here a monetary Number *)
(* is a fixed-point integer counting 1/Precision currency units, and every *)
(* multiplication by a ratio rounds to the nearest such unit (MulDiv), the *)
(* way each double operation rounds to the nearest representable value.    *)
(* Ages are integers; rates are whole percents.  The one Number that can   *)
(* be non-finite for finite inputs, yearsOfIncome, carries a kind tag.     *)
(***************************************************************************)
EXTENDS Integers, Sequences, FiniteSets, TLC

VARIABLES
    inputs,         \* useState<SimulationInputs>: the rendered inputs
    scenarios,      \* useState<ScenarioResult[]>: the rendered scenario set
    effectPending   \* the [inputs] effect of the last commit has not run yet

vars == <<inputs, scenarios, effectPending>>

-----------------------------------------------------------------------------
(* Bounds of the model *)

\* Monetary resolution: units per currency unit.
Precision == 100

\* Ages typed into the age fields lie within MaxHorizon years of the
\* early-retirement age (besides the defaults and one out-of-range value).
MaxHorizon == 1

-----------------------------------------------------------------------------
(* Program constants *)

MonthsPerYear == 12
WithdrawalPercent == 4
InflationSpikeRate == 5
EarlyRetirementAge == 60
MarketDownturnReturn == 4
OptimisticReturn == 10

MinCurrentAge == 18
MaxCurrentAge == 80
MinRetirementAge == 50
MaxRetirementAge == 80
MinExpectedReturn == 1
MaxExpectedReturn == 15
MinInflationRate == 1
MaxInflationRate == 8

Fields == {"currentAge", "retirementAge", "currentSavings",
           "monthlyContribution", "expectedReturn", "inflationRate",
           "retirementExpenses"}

Money(n) == n * Precision

\* useState initial value of inputs
DefaultInputs ==
    [currentAge          |-> 30,
     retirementAge       |-> 65,
     currentSavings      |-> Money(50000),
     monthlyContribution |-> Money(2000),
     expectedReturn      |-> 7,
     inflationRate       |-> 3,
     retirementExpenses  |-> Money(5000)]

-----------------------------------------------------------------------------
(* Arithmetic *)

\* a * m / d rounded to the nearest unit, d > 0 and m >= 0, computed without
\* forming the product a * m.
MulDiv(a, m, d) ==
    LET q == a \div d
        r == a % d
    IN  q * m + ((r * m + (d \div 2)) \div d)

\* A division that answers 0 where the divisor is 0.
DivideGuarded(a, b) ==
    IF b = 0 THEN [kind |-> "finite", value |-> 0]
    ELSE IF b > 0 THEN [kind |-> "finite", value |-> MulDiv(a, Precision, b)]
         ELSE [kind |-> "finite", value |-> MulDiv(-a, Precision, -b)]

\* a / b as a Number: finite (in 1/Precision), or what a double division by
\* zero gives.
Divide(a, b) ==
    IF b = 0
    THEN IF a > 0 THEN [kind |-> "Infinity", value |-> 0]
         ELSE IF a < 0 THEN [kind |-> "-Infinity", value |-> 0]
         ELSE [kind |-> "NaN", value |-> 0]
    ELSE IF b > 0 THEN [kind |-> "finite", value |-> MulDiv(a, Precision, b)]
         ELSE [kind |-> "finite", value |-> MulDiv(-a, Precision, -b)]

\* 1 + inflationRate / 100 as a Number
InflationFactor(inflationRate) ==
    Precision + MulDiv(inflationRate, Precision, 100)

\* Math.pow(base, n) as a Number, by repeated squaring; a negative n gives
\* the reciprocal.
RECURSIVE Pow(_, _)
Pow(base, n) ==
    IF n = 0 THEN Precision
    ELSE IF n < 0 THEN MulDiv(Precision, Precision, Pow(base, -n))
    ELSE LET half == Pow(base, n \div 2)
             even == MulDiv(half, half, Precision)
         IN  IF n % 2 = 0 THEN even ELSE MulDiv(even, base, Precision)

\* x / p for a Number p > 0
Over(x, p) == MulDiv(x, Precision, p)

-----------------------------------------------------------------------------
(* calculateScenario *)

\* { ...inputs, ...modifications }: modifications is a function on a subset
\* of Fields; the fields it does not name keep the value of inputs.
Merge(base, modifications) ==
    [f \in Fields |->
        IF f \in DOMAIN modifications THEN modifications[f] ELSE base[f]]

\* amount * (1 + monthlyReturn), monthlyReturn = expectedReturn / 100 / 12
Grow(amount, expectedReturn) ==
    amount + MulDiv(amount, expectedReturn, 100 * MonthsPerYear)

\* amount = amount * (1 + monthlyReturn) + monthlyContribution
MonthlyStepContributionFirst(amount, expectedReturn, monthlyContribution) ==
    Grow(amount + monthlyContribution, expectedReturn)

MonthlyStepWithdraw(amount, expectedReturn, monthlyContribution) ==
    Grow(amount, expectedReturn) - monthlyContribution

MonthlyStep(amount, expectedReturn, monthlyContribution) ==
    Grow(amount, expectedReturn) + monthlyContribution

\* for (let month = 0; month < 12 && year < yearsToRetirement; month++)
RECURSIVE MonthLoopUnguarded(_, _, _, _, _)
MonthLoopUnguarded(month, amount, year, yearsToRetirement, m) ==
    IF month < MonthsPerYear
    THEN MonthLoopUnguarded(month + 1,
                   MonthlyStep(amount, m.expectedReturn, m.monthlyContribution),
                   year, yearsToRetirement, m)
    ELSE amount

RECURSIVE MonthLoop(_, _, _, _, _)
MonthLoop(month, amount, year, yearsToRetirement, m) ==
    IF month < MonthsPerYear /\ year < yearsToRetirement
    THEN MonthLoop(month + 1,
                   MonthlyStep(amount, m.expectedReturn, m.monthlyContribution),
                   year, yearsToRetirement, m)
    ELSE amount

\* for (let year = 0; year <= yearsToRetirement; year++): the loop's final
\* amount and data.  The first two conjuncts of the test always hold; they
\* make TLC evaluate the loop's state at every iteration instead of at the
\* end.
RECURSIVE YearLoopExclusive(_, _, _, _, _)
YearLoopExclusive(year, amount, data, yearsToRetirement, m) ==
    IF amount \in Int /\ Len(data) = year /\ year < yearsToRetirement
    THEN LET grown == MonthLoop(0, amount, year, yearsToRetirement, m)
             point == [year      |-> m.currentAge + year,
                       amount    |-> grown,
                       realValue |->
                           Over(grown, Pow(InflationFactor(m.inflationRate),
                                           year))]
         IN  YearLoopExclusive(year + 1, grown, Append(data, point),
                               yearsToRetirement, m)
    ELSE [amount |-> amount, data |-> data]

RECURSIVE YearLoopPushFirst(_, _, _, _, _)
YearLoopPushFirst(year, amount, data, yearsToRetirement, m) ==
    IF amount \in Int /\ Len(data) = year /\ year <= yearsToRetirement
    THEN LET grown == MonthLoopUnguarded(0, amount, year, yearsToRetirement, m)
             point == [year      |-> m.currentAge + year,
                       amount    |-> amount,
                       realValue |->
                           Over(amount, Pow(InflationFactor(m.inflationRate),
                                            year))]
         IN  YearLoopPushFirst(year + 1, grown, Append(data, point),
                               yearsToRetirement, m)
    ELSE [amount |-> amount, data |-> data]

RECURSIVE YearLoop(_, _, _, _, _)
YearLoop(year, amount, data, yearsToRetirement, m) ==
    IF amount \in Int /\ Len(data) = year /\ year <= yearsToRetirement
    THEN LET grown == MonthLoop(0, amount, year, yearsToRetirement, m)
             point == [year      |-> m.currentAge + year,
                       amount    |-> grown,
                       realValue |->
                           Over(grown, Pow(InflationFactor(m.inflationRate),
                                           year))]
         IN  YearLoop(year + 1, grown, Append(data, point),
                      yearsToRetirement, m)
    ELSE [amount |-> amount, data |-> data]

\* The engine with yearsOfIncome taken from the inflation-discounted final
\* amount.
calculateScenarioRealCoverage(base, name, color, modifications) ==
    LET modifiedInputs    == Merge(base, modifications)
        yearsToRetirement == modifiedInputs.retirementAge
                                 - modifiedInputs.currentAge
        loop == YearLoop(0, modifiedInputs.currentSavings, <<>>,
                         yearsToRetirement, modifiedInputs)
        finalAmount   == loop.amount
        factor        == Pow(InflationFactor(modifiedInputs.inflationRate),
                             yearsToRetirement)
        monthlyIncome == MulDiv(MulDiv(finalAmount, WithdrawalPercent, 100),
                                1, MonthsPerYear)
    IN  [name          |-> name,
         finalAmount   |-> finalAmount,
         monthlyIncome |-> Over(monthlyIncome, factor),
         yearsOfIncome |-> Divide(Over(finalAmount, factor),
                                  modifiedInputs.retirementExpenses
                                      * MonthsPerYear),
         data          |-> loop.data,
         color         |-> color]

calculateScenario(base, name, color, modifications) ==
    LET modifiedInputs    == Merge(base, modifications)
        yearsToRetirement == modifiedInputs.retirementAge
                                 - modifiedInputs.currentAge
        loop == YearLoop(0, modifiedInputs.currentSavings, <<>>,
                         yearsToRetirement, modifiedInputs)
        finalAmount   == loop.amount
        monthlyIncome == MulDiv(MulDiv(finalAmount, WithdrawalPercent, 100),
                                1, MonthsPerYear)
        realMonthlyIncome ==
            Over(monthlyIncome,
                 Pow(InflationFactor(modifiedInputs.inflationRate),
                     yearsToRetirement))
        yearsOfIncome == Divide(finalAmount,
                                modifiedInputs.retirementExpenses
                                    * MonthsPerYear)
    IN  [name          |-> name,
         finalAmount   |-> finalAmount,
         monthlyIncome |-> realMonthlyIncome,
         yearsOfIncome |-> yearsOfIncome,
         data          |-> loop.data,
         color         |-> color]

-----------------------------------------------------------------------------
(* The scenario set *)

NoOverride == <<>>

\* The fixed catalogue of the effect, in call order.
Catalogue ==
    << [name |-> "Base Case", color |-> "#0891b2",
        modifications |-> NoOverride],
       [name |-> "Inflation Spike (5%)", color |-> "#dc2626",
        modifications |-> [inflationRate |-> InflationSpikeRate]],
       [name |-> "Early Retirement (60)", color |-> "#7c3aed",
        modifications |-> [retirementAge |-> EarlyRetirementAge]],
       [name |-> "Market Downturn (4% return)", color |-> "#ea580c",
        modifications |-> [expectedReturn |-> MarketDownturnReturn]],
       [name |-> "Optimistic (10% return)", color |-> "#059669",
        modifications |-> [expectedReturn |-> OptimisticReturn]] >>

\* What a scenario set would be if each override were written into the
\* inputs the next call reads.
RECURSIVE Compounded(_, _)
Compounded(base, i) ==
    IF i = 1 THEN Merge(base, Catalogue[1].modifications)
    ELSE Merge(Compounded(base, i - 1), Catalogue[i].modifications)

BuildScenariosCompounded(base) ==
    [i \in 1..Len(Catalogue) |->
        calculateScenario(Compounded(base, i), Catalogue[i].name,
                          Catalogue[i].color, NoOverride)]

BuildScenariosBaseLast(base) ==
    LET order == <<2, 3, 4, 5, 1>>
    IN  [i \in 1..Len(Catalogue) |->
            calculateScenario(base, Catalogue[order[i]].name,
                              Catalogue[order[i]].color,
                              Catalogue[order[i]].modifications)]

\* The array handed to setScenarios: five calls on the same inputs.
BuildScenarios(base) ==
    [i \in 1..Len(Catalogue) |->
        calculateScenario(base, Catalogue[i].name, Catalogue[i].color,
                          Catalogue[i].modifications)]

-----------------------------------------------------------------------------
(* SimulationChart *)

\* scenario.data.find(p => p.year === year): the index of the first point of
\* that age, 0 when there is none.
FindPoint(data, year) ==
    IF \E k \in 1..Len(data) : data[k].year = year
    THEN CHOOSE k \in 1..Len(data) :
             /\ data[k].year = year
             /\ \A j \in 1..(k - 1) : data[j].year # year
    ELSE 0

\* The row built for one point of the first scenario: its year, and for
\* every scenario that has a point of that year the amount under the
\* scenario's name and the real value under name_real.
DataPoint(list, basePoint) ==
    LET matching == {i \in 1..Len(list) :
                        FindPoint(list[i].data, basePoint.year) # 0}
        names    == {list[i].name : i \in matching}
        \* forEach assigns in list order: the last scenario of a name wins
        last(n)  == CHOOSE i \in matching :
                        /\ list[i].name = n
                        /\ \A j \in matching : list[j].name = n => j <= i
        point(n) == list[last(n)].data[FindPoint(list[last(n)].data,
                                                 basePoint.year)]
    IN  [year   |-> basePoint.year,
         amount |-> [n \in names |-> point(n).amount],
         real   |-> [n \in names |-> point(n).realValue]]

\* combinedData = scenarios[0]?.data.map(...) || []
combinedData(list) ==
    IF list = <<>> THEN <<>>
    ELSE [k \in 1..Len(list[1].data) |-> DataPoint(list, list[1].data[k])]

-----------------------------------------------------------------------------
(* Input controls *)

Ages == (EarlyRetirementAge - MaxHorizon)..(EarlyRetirementAge + MaxHorizon)

\* Number(e.target.value) of a numeric text field: whatever number is typed;
\* the min and max attributes do not restrict it.
TypedValues(field) ==
    CASE field = "currentAge"          -> Ages \cup {MaxCurrentAge + 1}
      [] field = "retirementAge"       -> Ages
      [] field = "currentSavings"      -> {Money(0)}
      [] field = "monthlyContribution" -> {-Money(100)}
      [] field = "retirementExpenses"  -> {Money(0)}

\* value[0] of a slider: a position between its min and max (here the whole
\* percents at the low end and the default).
SliderValues(field) ==
    CASE field = "expectedReturn" -> {MinExpectedReturn}
      [] field = "inflationRate"  -> {MinInflationRate}

TextFields == {"currentAge", "retirementAge", "currentSavings",
               "monthlyContribution", "retirementExpenses"}
SliderFields == {"expectedReturn", "inflationRate"}

-----------------------------------------------------------------------------
(* Component state machine *)

Init ==
    /\ inputs = DefaultInputs
    /\ scenarios = <<>>
    /\ effectPending = TRUE

\* setInputs(prev => ({ ...prev, [field]: value })): a new object every
\* time, so the [inputs] effect is scheduled by the commit that follows.
SetInputsInPlace(field, value) ==
    /\ inputs' = [inputs EXCEPT ![field] = value]
    /\ effectPending' = (field \notin SliderFields)
    /\ UNCHANGED scenarios

handleInputChange(field, value) ==
    /\ inputs' = [inputs EXCEPT ![field] = value]
    /\ effectPending' = TRUE
    /\ UNCHANGED scenarios

\* onChange of a numeric text field.  The effect of a commit is flushed
\* before the next update is rendered, so no change is rendered while an
\* effect is pending.
InputOnChange ==
    /\ ~effectPending
    /\ \E field \in TextFields : \E value \in TypedValues(field) :
           handleInputChange(field, value)

\* onValueChange of a slider.
SliderOnValueChange ==
    /\ ~effectPending
    /\ \E field \in SliderFields : \E value \in SliderValues(field) :
           handleInputChange(field, value)

\* useEffect(() => { ...; setScenarios([...]) }, [inputs])
RunEffect ==
    /\ effectPending
    /\ scenarios' = BuildScenarios(inputs)
    /\ effectPending' = FALSE
    /\ UNCHANGED inputs

Next == InputOnChange \/ SliderOnValueChange \/ RunEffect

Spec == Init /\ [][Next]_vars

-----------------------------------------------------------------------------
(* Vocabulary of the properties *)

\* The inputs a scenario is to be computed from: the rendered inputs with
\* that scenario's override alone.
EffectiveInputs(i) ==
    CASE i = 1 -> inputs
      [] i = 2 -> [inputs EXCEPT !.inflationRate = InflationSpikeRate]
      [] i = 3 -> [inputs EXCEPT !.retirementAge = EarlyRetirementAge]
      [] i = 4 -> [inputs EXCEPT !.expectedReturn = MarketDownturnReturn]
      [] i = 5 -> [inputs EXCEPT !.expectedReturn = OptimisticReturn]

Horizon(i) == EffectiveInputs(i).retirementAge - EffectiveInputs(i).currentAge

\* The effect has run on the rendered inputs.
Settled == ~effectPending /\ Len(scenarios) = 5

Trajectory(i) == scenarios[i].data

-----------------------------------------------------------------------------
(* C1: after the effect has run, every scenario whose horizon Y is >= 0 has a
   trajectory of exactly Y + 1 points, aged currentAge, currentAge + 1, ...,
   retirementAge in this order. *)
C1_TrajectoryAges ==
    ~effectPending =>
        \A i \in 1..5 :
            Horizon(i) >= 0 =>
                /\ Len(Trajectory(i)) = Horizon(i) + 1
                /\ \A k \in 1..(Horizon(i) + 1) :
                       Trajectory(i)[k].year
                           = EffectiveInputs(i).currentAge + k - 1
                /\ Trajectory(i)[Horizon(i) + 1].year
                       = EffectiveInputs(i).retirementAge

C1_Witness ==
    /\ Settled
    /\ \E i \in 1..5 : Horizon(i) >= 2 /\ Len(Trajectory(i)) = Horizon(i) + 1
    /\ \E j \in 1..5 : Horizon(j) = 0 /\ Len(Trajectory(j)) = 1

C4_FixedOrder ==
    \/ effectPending /\ scenarios = <<>>
    \/ /\ Len(scenarios) = 5
       /\ scenarios[1].name = "Base Case"
       /\ scenarios[2].name = "Inflation Spike (5%)"
       /\ scenarios[3].name = "Early Retirement (60)"
       /\ scenarios[4].name = "Market Downturn (4% return)"
       /\ scenarios[5].name = "Optimistic (10% return)"
       /\ \A i, j \in 1..5 : i # j => scenarios[i].name # scenarios[j].name

C4_Witness ==
    /\ Settled
    /\ inputs # DefaultInputs
    /\ scenarios[1].name = "Base Case"
    /\ scenarios[5].name = "Optimistic (10% return)"

(* C5: a run of the effect leaves the inputs unchanged and stores, for each
   of the five scenarios, the engine's result on the inputs with that
   scenario's override alone (no override for Base Case). *)
C5_Independent ==
    [][ (effectPending /\ ~effectPending') =>
            /\ inputs' = inputs
            /\ Len(scenarios') = 5
            /\ \A i \in 1..5 :
                   scenarios'[i]
                       = calculateScenario(EffectiveInputs(i),
                                           Catalogue[i].name,
                                           Catalogue[i].color, NoOverride)
      ]_vars

C5_Witness ==
    /\ Settled
    /\ inputs.inflationRate # InflationSpikeRate
    /\ inputs.retirementAge # EarlyRetirementAge
    /\ Horizon(3) >= 1
    /\ scenarios[3].finalAmount # scenarios[1].finalAmount
    /\ scenarios[4].finalAmount # scenarios[1].finalAmount
    /\ scenarios[5].finalAmount # scenarios[4].finalAmount
    /\ scenarios[2].monthlyIncome # scenarios[1].monthlyIncome
    /\ Len(Trajectory(4)) = Len(Trajectory(1))

(* C6: in every trajectory of horizon Y >= 1 the last two points have the
   same nominal amount: the point at retirementAge repeats the balance at
   the end of year Y - 1. *)
C6_TerminalDuplicate ==
    ~effectPending =>
        \A i \in 1..5 :
            Horizon(i) >= 1 =>
                /\ Len(Trajectory(i)) >= 2
                /\ Trajectory(i)[Len(Trajectory(i))].amount
                       = Trajectory(i)[Len(Trajectory(i)) - 1].amount
                /\ Trajectory(i)[Len(Trajectory(i))].year
                       = EffectiveInputs(i).retirementAge

C6_Witness ==
    /\ Settled
    /\ \E i \in 1..5 :
           /\ Horizon(i) >= 2
           /\ Len(Trajectory(i)) = Horizon(i) + 1
           /\ Trajectory(i)[Horizon(i)].amount
                  > Trajectory(i)[Horizon(i) - 1].amount
           /\ Trajectory(i)[Horizon(i) + 1].amount
                  = Trajectory(i)[Horizon(i)].amount

(* C7: with monthlyContribution >= 0, expectedReturn >= 0 and
   currentSavings >= 0, the nominal amount never decreases from one
   trajectory point to the next. *)
C7_Monotonic ==
    ~effectPending =>
        \A i \in 1..5 :
            ( /\ EffectiveInputs(i).monthlyContribution >= 0
              /\ EffectiveInputs(i).expectedReturn >= 0
              /\ EffectiveInputs(i).currentSavings >= 0 ) =>
                \A k \in 1..(Len(Trajectory(i)) - 1) :
                    Trajectory(i)[k].amount <= Trajectory(i)[k + 1].amount

C7_Witness ==
    /\ Settled
    /\ \E i \in 1..5 :
           /\ EffectiveInputs(i).monthlyContribution >= 0
           /\ EffectiveInputs(i).currentSavings > 0
           /\ Len(Trajectory(i)) >= 3
           /\ Trajectory(i)[1].amount < Trajectory(i)[2].amount
           /\ Trajectory(i)[Len(Trajectory(i)) - 1].amount
                  = Trajectory(i)[Len(Trajectory(i))].amount

(* C8: whenever no effect is pending, the stored scenarios are the set built
   from the rendered inputs: every change of a field is followed by a full
   rebuild, and nothing built from earlier inputs stays. *)
C8_RebuiltWholesale ==
    ~effectPending => scenarios = BuildScenarios(inputs)

C8_Witness ==
    /\ ~effectPending
    /\ inputs.currentAge # DefaultInputs.currentAge
    /\ inputs.expectedReturn # DefaultInputs.expectedReturn
    /\ inputs.retirementExpenses # DefaultInputs.retirementExpenses
    /\ scenarios = BuildScenarios(inputs)
    /\ scenarios[1] # BuildScenarios(DefaultInputs)[1]

(* C9 as stated: the rendered inputs, which the effect hands to the engine,
   always lie within the declared domains. *)
C9_InputsValidated ==
    /\ inputs.currentAge \in MinCurrentAge..MaxCurrentAge
    /\ inputs.retirementAge \in MinRetirementAge..MaxRetirementAge
    /\ inputs.currentSavings >= 0
    /\ inputs.monthlyContribution >= 0
    /\ inputs.retirementExpenses >= 0
    /\ inputs.expectedReturn \in MinExpectedReturn..MaxExpectedReturn
    /\ inputs.inflationRate \in MinInflationRate..MaxInflationRate

\* twelve applications of: grow by the monthly rate, then add the contribution
RECURSIVE TwelveSteps(_, _, _)
TwelveSteps(n, amount, e) ==
    IF n = 0 THEN amount
    ELSE TwelveSteps(n - 1,
                     Grow(amount, e.expectedReturn) + e.monthlyContribution,
                     e)

(* C10: in a trajectory of horizon Y >= 1 the amount at age currentAge is
   currentSavings after 12 monthly steps (growth first, then the
   contribution), and each later point up to age retirementAge - 1 is the
   point before it after 12 more steps, so that the point at currentAge + k
   holds 12 * (k + 1) steps; finalAmount is the balance after the 12 * Y
   steps. *)
C10_MonthlyCompounding ==
    ~effectPending =>
        \A i \in 1..5 :
            Horizon(i) >= 1 =>
                /\ Len(Trajectory(i)) = Horizon(i) + 1
                /\ Trajectory(i)[1].amount
                       = TwelveSteps(12, EffectiveInputs(i).currentSavings,
                                     EffectiveInputs(i))
                /\ \A k \in 1..(Horizon(i) - 1) :
                       Trajectory(i)[k + 1].amount
                           = TwelveSteps(12, Trajectory(i)[k].amount,
                                         EffectiveInputs(i))
                /\ scenarios[i].finalAmount = Trajectory(i)[Horizon(i)].amount

C10_Witness ==
    /\ Settled
    /\ \E i \in 1..5 :
           /\ Horizon(i) >= 2
           /\ EffectiveInputs(i).monthlyContribution > 0
           /\ EffectiveInputs(i).currentSavings > 0
           /\ Trajectory(i)[1].amount
                  > EffectiveInputs(i).currentSavings
                        + 12 * EffectiveInputs(i).monthlyContribution
           /\ Trajectory(i)[2].amount > Trajectory(i)[1].amount

\* A result without its yearsOfIncome.
OtherFields(r) ==
    [name |-> r.name, finalAmount |-> r.finalAmount,
     monthlyIncome |-> r.monthlyIncome, data |-> r.data, color |-> r.color]

\* Non-zero monthly expenses to compare with.
OtherExpenses == {DefaultInputs.retirementExpenses, Money(1)}

(* C11: the engine returns a result for every input; with
   retirementExpenses = 0 its yearsOfIncome is the non-finite value of the
   division by zero (Infinity, -Infinity or NaN), unchanged, and every other
   field of the result is what it is for non-zero retirementExpenses. *)
C11_ZeroExpenses ==
    ~effectPending =>
        \A i \in 1..5 :
            /\ DOMAIN scenarios[i]
                   = {"name", "finalAmount", "monthlyIncome", "yearsOfIncome",
                      "data", "color"}
            /\ EffectiveInputs(i).retirementExpenses = 0 =>
                   /\ scenarios[i].yearsOfIncome.kind
                          = ( IF scenarios[i].finalAmount > 0 THEN "Infinity"
                              ELSE IF scenarios[i].finalAmount < 0
                                   THEN "-Infinity"
                                   ELSE "NaN" )
                   /\ \A x \in OtherExpenses :
                          OtherFields(scenarios[i])
                              = OtherFields(
                                    calculateScenario(
                                        [EffectiveInputs(i)
                                            EXCEPT !.retirementExpenses = x],
                                        Catalogue[i].name, Catalogue[i].color,
                                        NoOverride))
            /\ EffectiveInputs(i).retirementExpenses # 0 =>
                   scenarios[i].yearsOfIncome.kind = "finite"

C11_Witness ==
    /\ Settled
    /\ inputs.retirementExpenses = 0
    /\ inputs.currentAge \in MinCurrentAge..MaxCurrentAge
    /\ inputs.retirementAge \in MinRetirementAge..MaxRetirementAge
    /\ inputs.currentSavings >= 0
    /\ inputs.monthlyContribution >= 0
    /\ \E i \in 1..5 :
           /\ scenarios[i].yearsOfIncome.kind = "Infinity"
           /\ Len(Trajectory(i)) >= 2
    /\ \E j \in 1..5 : scenarios[j].yearsOfIncome.kind = "NaN"

(* C12 as stated: for every stored scenario and every point of its
   trajectory, the chart's combined dataset has a row of that point's age
   that holds the point's nominal amount under the scenario's name. *)
C12_NoPointDropped ==
    LET rows == combinedData(scenarios)
    IN  \A i \in 1..Len(scenarios) :
            \A k \in 1..Len(scenarios[i].data) :
                \E r \in 1..Len(rows) :
                    /\ rows[r].year = scenarios[i].data[k].year
                    /\ scenarios[i].name \in DOMAIN rows[r].amount
                    /\ rows[r].amount[scenarios[i].name]
                           = scenarios[i].data[k].amount

\* The ages and nominal amounts of a trajectory.
Nominal(data) ==
    [k \in 1..Len(data) |-> [year |-> data[k].year, amount |-> data[k].amount]]

(* C13: 'Inflation Spike (5%)' and 'Base Case', two results of the engine
   on inputs that differ at most in inflationRate, have the same ages, the
   same nominal amounts, the same finalAmount and the same yearsOfIncome. *)
C13_InflationIndependent ==
    ~effectPending =>
        /\ Nominal(Trajectory(2)) = Nominal(Trajectory(1))
        /\ scenarios[2].finalAmount = scenarios[1].finalAmount
        /\ scenarios[2].yearsOfIncome = scenarios[1].yearsOfIncome

C13_Witness ==
    /\ Settled
    /\ inputs.inflationRate # InflationSpikeRate
    /\ Horizon(1) >= 2
    /\ scenarios[1].yearsOfIncome.kind = "finite"
    /\ scenarios[1].yearsOfIncome.value # 0
    /\ scenarios[2].monthlyIncome # scenarios[1].monthlyIncome
    /\ Trajectory(2)[Len(Trajectory(2))].realValue
           # Trajectory(1)[Len(Trajectory(1))].realValue
    /\ Nominal(Trajectory(2)) = Nominal(Trajectory(1))

=============================================================================
